---- MODULE Spec2Model ----
(***************************************************************************)
(* Model of app/streamlit_app.py (Instacart A/B dashboard).                *)
(*                                                                         *)
(* The script runs top to bottom: the overview tab (SRM check), the        *)
(* significance tab (two-proportion z-test, Welch t-test), the confidence  *)
(* interval tab (seeded bootstrap, with an analytic fallback in its        *)
(* except handler) and the CUPED tab.  Each tab is modelled by its own     *)
(* specification over the tab's inputs (the rows the warehouse returns).   *)
(*                                                                         *)
(* Numbers.  A float is a record [n, d] read as the fraction n/d, with     *)
(* d = 0 for the IEEE specials: NaN = 0/0, +inf = 1/0, -inf = -1/0.        *)
(* Arithmetic is exact except in the CUPED tab, whose claim is about exact *)
(* equality under cancellation: there every operation rounds to a binary   *)
(* significand of Prec bits, round-half-to-even, as binary64 does with 53. *)
(***************************************************************************)
EXTENDS Integers, Sequences, FiniteSets

None == "None"

(* ------------------------------ bounds -------------------------------- *)
MaxN == 2          \* longest per-arm sample handed to a bootstrap call
MaxB == 2          \* largest resample count B of a bootstrap call
RngMod == 16       \* size of the modelled generator's state space
MaxUsers == 3      \* largest users count of a variant_metrics row
MaxVar == 1        \* largest arpu_var of a variant_metrics row
MaxArm == 2        \* most users of one variant in user_outcomes
MaxSlider == 2     \* largest value of the "Bootstrap samples" slider
MaxUnits == 3      \* most rows of user_outcomes_with_pre
Prec == 3          \* bits of the significand in the CUPED tab (binary64: 53)

(* ------------------------------ floats -------------------------------- *)
Abs(x) == IF x < 0 THEN -x ELSE x
Sign(x) == IF x > 0 THEN 1 ELSE IF x < 0 THEN -1 ELSE 0

RECURSIVE Gcd(_, _)
Gcd(a, b) == IF b = 0 THEN a ELSE Gcd(b, a % b)

Frac(n, d) ==
  IF d = 0 THEN [n |-> Sign(n), d |-> 0]
  ELSE LET g == Gcd(Abs(n), Abs(d))
       IN [n |-> Sign(d) * (n \div g), d |-> Abs(d) \div g]

F(k) == [n |-> k, d |-> 1]
Zero == F(0)
One == F(1)
NaN == [n |-> 0, d |-> 0]
Inf == [n |-> 1, d |-> 0]

IsNaN(x) == x.d = 0 /\ x.n = 0
IsFinite(x) == x.d > 0

FNeg(x) == [n |-> -x.n, d |-> x.d]

FAdd(x, y) ==
  IF x.d = 0 /\ y.d = 0 THEN (IF x.n = y.n THEN x ELSE NaN)
  ELSE IF x.d = 0 THEN x
  ELSE IF y.d = 0 THEN y
  ELSE Frac(x.n * y.d + y.n * x.d, x.d * y.d)

FSub(x, y) == FAdd(x, FNeg(y))

FMul(x, y) == Frac(x.n * y.n, x.d * y.d)

FInv(y) ==
  IF y.d = 0 THEN (IF y.n = 0 THEN NaN ELSE Zero)
  ELSE IF y.n = 0 THEN Inf
  ELSE Frac(y.d * Sign(y.n), Abs(y.n))

\* IEEE division as numpy performs it: x/0 is +-inf or NaN with a warning,
\* never an exception.
NpDiv(x, y) == FMul(x, FInv(y))

\* x < y; every comparison with NaN is false.
FLt(x, y) ==
  /\ ~IsNaN(x)
  /\ ~IsNaN(y)
  /\ x # y
  /\ IF x.d > 0 /\ y.d > 0 THEN x.n * y.d < y.n * x.d
     ELSE IF x.d = 0 THEN x.n < 0
     ELSE y.n > 0

FLe(x, y) == ~IsNaN(x) /\ ~IsNaN(y) /\ (x = y \/ FLt(x, y))
FGt(x, y) == FLt(y, x)

(* --------------------------- numpy reductions -------------------------- *)
RECURSIVE SumSeq(_)
SumSeq(s) == IF s = <<>> THEN Zero ELSE FAdd(SumSeq(SubSeq(s, 1, Len(s) - 1)), s[Len(s)])

\* ndarray.mean(): sum / count; the mean of an empty array is 0/0 = NaN.
NpMean(s) == NpDiv(SumSeq(s), F(Len(s)))

RECURSIVE Insert(_, _)
Insert(s, x) ==
  IF s = <<>> THEN <<x>>
  ELSE IF FLe(x, s[1]) THEN <<x>> \o s
  ELSE <<s[1]>> \o Insert(Tail(s), x)

RECURSIVE NpSort(_)
NpSort(s) == IF s = <<>> THEN <<>> ELSE Insert(NpSort(Tail(s)), s[1])

HasNaN(s) == \E k \in 1..Len(s) : IsNaN(s[k])

\* np.percentile(buf, q) for q = qn/qd (as a fraction of 1), method 'linear',
\* on a non-empty buffer: NaN if any entry is NaN, else the interpolation
\* between the two order statistics around the virtual index q * (n - 1).
Percentile(buf, qn, qd) ==
  IF HasNaN(buf) THEN NaN
  ELSE LET srt == NpSort(buf)
           pos == qn * (Len(buf) - 1)
           j == pos \div qd
           gamma == Frac(pos % qd, qd)
           lo == srt[j + 1]
           hi == srt[IF j + 2 <= Len(buf) THEN j + 2 ELSE j + 1]
       IN FAdd(lo, FMul(FSub(hi, lo), gamma))

(* ------------------------------- state -------------------------------- *)
VARIABLES
  np_empty,   \* what np.percentile does on an empty array in this build
  a_vals,     \* sample of arm A handed to the bootstrap calls
  b_vals,     \* sample of arm B handed to the bootstrap calls
  pc,         \* per call: "idle", "loop", "returned", "raised"
  args,       \* per call: [B, seed]
  rng,        \* per generator: its state
  i,          \* per call: iterations of the loop completed
  ai,         \* per call: the last resample of A
  bi,         \* per call: the last resample of B
  drawn,      \* per call: the generator outputs the last iteration consumed
  diffs,      \* per call: the distribution buffer
  ret,        \* per call: the returned value, or the exception raised
  tab,        \* position of the script inside the tab being run
  vm,         \* rows of variant_metrics
  uo,         \* rows of user_outcomes, or the query's failure
  uop,        \* rows of user_outcomes_with_pre
  srm,        \* what the overview tab wrote for the SRM check
  sig,        \* what the significance tab wrote
  cis,        \* what the confidence-interval tab wrote
  cuped       \* what the CUPED tab wrote

bootVars == <<np_empty, a_vals, b_vals, pc, args, rng, i, ai, bi, drawn, diffs, ret>>
pageVars == <<tab, vm, uo, uop, srm, sig, cis, cuped>>
vars == <<bootVars, pageVars>>

(* ------------------------ the bootstrap estimator ---------------------- *)
\* The seeds of lines 232-234 and 246.
SeedConversion == 100
SeedRetention == 101
SeedArpu == 102
SeedHistogram == 202

Calls == {"c1", "c2"}
Seeds == {SeedArpu, SeedHistogram}
Vals == {0, 1}
EmptyPercentile == {"nan", "IndexError"}
\* An entry of np.empty(B) not written yet: no float of the program.
Uninit == [n |-> 0, d |-> -1]
\* A generator no call has created.
NoRng == -1

SeqsUpTo(S, m) == UNION {[1..k -> S] : k \in 0..m}
Samples == SeqsUpTo(Vals, MaxN)
Range(s) == {s[k] : k \in 1..Len(s)}
ToFloat(s) == [k \in 1..Len(s) |-> F(s[k])]

\* np.random.default_rng(seed): a generator whose state is a function of the
\* seed alone.  PCG64's 128-bit state is scaled down to RngMod values.
default_rng(seed) == seed % RngMod

\* One output of the generator: the state advances deterministically.
RngNext(s) == (5 * s + 3) % RngMod

\* The index (1-based) a bounded draw maps a generator output to.
RngIndex(s, n) == (s * n) \div RngMod + 1

\* The k next outputs of a generator in state s.
RECURSIVE Outputs(_, _)
Outputs(s, k) == IF k = 0 THEN <<>> ELSE <<RngNext(s)>> \o Outputs(RngNext(s), k - 1)

\* rng.choice(a, size=len(a), replace=True): len(a) draws with replacement.
\* An empty a with size 0 takes no sample and returns an empty array.
choice(a, s) ==
  LET outs == Outputs(s, Len(a))
  IN [vals |-> [k \in 1..Len(a) |-> a[RngIndex(outs[k], Len(a))]],
      outs |-> outs,
      rng |-> IF outs = <<>> THEN s ELSE outs[Len(outs)]]

\* The generator a call draws from: the local it creates itself.  (The
\* st.cache_data wrapper of lines 200 and 212, which returns a stored result
\* for arguments seen before, is left out: every call runs the body.)
GenShared(c) == "c1"
Gen(c) == c

\* float(diffs.mean()), the returned point estimate.
ObservedDiff(buf, a, b) == FSub(NpMean(ToFloat(b)), NpMean(ToFloat(a)))
PointEstimate(buf, a, b) == NpMean(buf)

\* rng = default_rng(seed); na, nb = len(..); diffs = np.empty(B, float)
Call(c) ==
  /\ pc[c] = "idle"
  /\ \E B \in 0..MaxB, seed \in Seeds :
       /\ args' = [args EXCEPT ![c] = [B |-> B, seed |-> seed]]
       /\ rng' = [rng EXCEPT ![Gen(c)] = default_rng(seed)]
       /\ diffs' = [diffs EXCEPT ![c] = [k \in 1..B |-> Uninit]]
  /\ i' = [i EXCEPT ![c] = 0]
  /\ pc' = [pc EXCEPT ![c] = "loop"]
  /\ UNCHANGED <<np_empty, a_vals, b_vals, ai, bi, drawn, ret, pageVars>>

\* One iteration of `for i in range(B)`.
Iterate(c) ==
  /\ pc[c] = "loop"
  /\ i[c] < args[c].B
  /\ LET ra == choice(a_vals, rng[Gen(c)])
         rb == choice(b_vals, ra.rng)
     IN /\ ai' = [ai EXCEPT ![c] = ra.vals]
        /\ bi' = [bi EXCEPT ![c] = rb.vals]
        /\ drawn' = [drawn EXCEPT ![c] = ra.outs \o rb.outs]
        /\ rng' = [rng EXCEPT ![Gen(c)] = rb.rng]
        /\ diffs' = [diffs EXCEPT ![c][i[c] + 1] =
                       FSub(NpMean(ToFloat(rb.vals)), NpMean(ToFloat(ra.vals)))]
  /\ i' = [i EXCEPT ![c] = i[c] + 1]
  /\ UNCHANGED <<np_empty, a_vals, b_vals, pc, args, ret, pageVars>>

\* lo, hi = np.percentile(diffs, [2.5, 97.5]); return mean, (lo, hi).
\* On an empty buffer np.percentile returns NaN or raises IndexError,
\* depending on the numpy build.
Return(c) ==
  /\ pc[c] = "loop"
  /\ i[c] = args[c].B
  /\ IF args[c].B = 0 /\ np_empty = "IndexError"
     THEN /\ pc' = [pc EXCEPT ![c] = "raised"]
          /\ ret' = [ret EXCEPT ![c] = [exc |-> "IndexError"]]
     ELSE /\ pc' = [pc EXCEPT ![c] = "returned"]
          /\ ret' = [ret EXCEPT ![c] =
               [point |-> PointEstimate(diffs[c], a_vals, b_vals),
                lo |-> IF args[c].B = 0 THEN NaN ELSE Percentile(diffs[c], 1, 40),
                hi |-> IF args[c].B = 0 THEN NaN ELSE Percentile(diffs[c], 39, 40)]]
  /\ UNCHANGED <<np_empty, a_vals, b_vals, args, rng, i, ai, bi, drawn, diffs, pageVars>>

PageIdle ==
  /\ tab = None /\ vm = None /\ uo = None /\ uop = None
  /\ srm = None /\ sig = None /\ cis = None /\ cuped = None

InitBoot ==
  /\ np_empty \in EmptyPercentile
  /\ a_vals \in Samples
  /\ b_vals \in Samples
  /\ pc = [c \in Calls |-> "idle"]
  /\ args = [c \in Calls |-> None]
  /\ rng = [c \in Calls |-> NoRng]
  /\ i = [c \in Calls |-> 0]
  /\ ai = [c \in Calls |-> <<>>]
  /\ bi = [c \in Calls |-> <<>>]
  /\ drawn = [c \in Calls |-> <<>>]
  /\ diffs = [c \in Calls |-> <<>>]
  /\ ret = [c \in Calls |-> [exc |-> None]]
  /\ PageIdle

NextBoot == \E c \in Calls : Call(c) \/ Iterate(c) \/ Return(c)

SpecBoot == InitBoot /\ [][NextBoot]_vars

(* ---------------------- claims about the estimator --------------------- *)
Finished(c) == pc[c] \in {"returned", "raised"}

\* The state of a generator created from seed after k outputs.
StateAfter(seed, k) == IF k = 0 THEN default_rng(seed) ELSE Outputs(default_rng(seed), k)[k]

\* C1: two bootstrap calls with identical (A, B, B_count, seed) end with
\* identical distribution buffers and identical results under every
\* interleaving of their iterations with those of the other call, and each
\* call's generator is at every moment exactly where its own seed and its own
\* completed iterations put it: no other call has read or advanced it.
C1_Determinism ==
  /\ \A c1, c2 \in Calls :
       (Finished(c1) /\ Finished(c2) /\ args[c1] = args[c2])
         => (diffs[c1] = diffs[c2] /\ ret[c1] = ret[c2])
  /\ \A c \in Calls :
       pc[c] # "idle"
         => rng[c] = StateAfter(args[c].seed, i[c] * (Len(a_vals) + Len(b_vals)))

C1_Witness ==
  /\ pc["c1"] = "returned" /\ pc["c2"] = "returned"
  /\ args["c1"] = args["c2"]
  /\ args["c1"].B = 2
  /\ Len(a_vals) = 2 /\ Len(b_vals) = 2
  /\ diffs["c1"][1] # diffs["c1"][2]

\* C3: every result a bootstrap call returns has ci_low <= ci_high, for
\* every pair of samples and every seed.  It is stated for B_count >= 1:
\* what a call with B_count = 0 returns depends on the numpy build.
C3_CiOrdered ==
  \A c \in Calls :
    (pc[c] = "returned" /\ args[c].B >= 1) => FLe(ret[c].lo, ret[c].hi)

\* The part of C3 the code keeps: with both arms non-empty and at least one
\* resample the interval is ordered.
CiOrderedOnData ==
  \A c \in Calls :
    (pc[c] = "returned" /\ args[c].B >= 1 /\ a_vals # <<>> /\ b_vals # <<>>)
      => FLe(ret[c].lo, ret[c].hi)

RECURSIVE SumInts(_)
SumInts(s) == IF s = <<>> THEN 0 ELSE s[1] + SumInts(Tail(s))

\* mean(y) - mean(x) of two integer samples, NaN when either is empty.
MeanDiff(x, y) ==
  IF x = <<>> \/ y = <<>> THEN NaN
  ELSE Frac(SumInts(y) * Len(x) - SumInts(x) * Len(y), Len(x) * Len(y))

\* C9: a call ends after exactly B_count iterations with a buffer of B_count
\* entries, all written; each iteration takes from the call's own generator
\* first |A| outputs for a resample of A, then |B| outputs for a resample of
\* B, every element drawn from the arm it resamples, and stores
\* mean(resample_B) - mean(resample_A); the returned point estimate is the
\* arithmetic mean of the buffer.
C9_BootstrapLoop ==
  \A c \in Calls :
    LET na == Len(a_vals)
        nb == Len(b_vals)
    IN /\ Finished(c) => i[c] = args[c].B
       /\ pc[c] # "idle" =>
            /\ Len(diffs[c]) = args[c].B
            /\ \A k \in 1..Len(diffs[c]) : (diffs[c][k] = Uninit) <=> (k > i[c])
       /\ (pc[c] # "idle" /\ i[c] >= 1) =>
            /\ Len(ai[c]) = na /\ Len(bi[c]) = nb
            /\ Len(drawn[c]) = na + nb
            /\ \A k \in 1..na : ai[c][k] = a_vals[RngIndex(drawn[c][k], na)]
            /\ \A k \in 1..nb : bi[c][k] = b_vals[RngIndex(drawn[c][na + k], nb)]
            /\ \A k \in 1..(na + nb - 1) : drawn[c][k + 1] = RngNext(drawn[c][k])
            /\ (na + nb > 0) => rng[c] = drawn[c][na + nb]
            /\ diffs[c][i[c]] = MeanDiff(ai[c], bi[c])
       /\ pc[c] = "returned" =>
            IF args[c].B = 0 \/ HasNaN(diffs[c])
            THEN IsNaN(ret[c].point)
            ELSE FMul(ret[c].point, F(args[c].B)) = SumSeq(diffs[c])

\* A call that returned a point estimate different from the difference of the
\* original samples' means.
C9_Witness ==
  \E c \in Calls :
    /\ pc[c] = "returned"
    /\ args[c].B = 2
    /\ IsFinite(ret[c].point)
    /\ ret[c].point # MeanDiff(a_vals, b_vals)

(* --------------------------- variant_metrics --------------------------- *)
Arpus == {0, 1}

\* One row of variant_metrics: users, converters (at most users), arpu,
\* arpu_var (never negative).
VmRows ==
  {r \in [users : 0..MaxUsers, converters : 0..MaxUsers, arpu : Arpus, arpu_var : 0..MaxVar] :
     r.converters <= r.users}

\* The table as the tabs read it: the row of variant A and the row of B.
VmTables == [A : VmRows, B : VmRows]

BootIdle ==
  /\ np_empty = "nan"
  /\ a_vals = <<>>
  /\ b_vals = <<>>
  /\ pc = [c \in Calls |-> "idle"]
  /\ args = [c \in Calls |-> None]
  /\ rng = [c \in Calls |-> NoRng]
  /\ i = [c \in Calls |-> 0]
  /\ ai = [c \in Calls |-> <<>>]
  /\ bi = [c \in Calls |-> <<>>]
  /\ drawn = [c \in Calls |-> <<>>]
  /\ diffs = [c \in Calls |-> <<>>]
  /\ ret = [c \in Calls |-> [exc |-> None]]

(* ----------------------------- overview tab ---------------------------- *)
\* The 5% critical value of chi-square with one degree of freedom:
\* 1 - stats.chi2.cdf(x, df=1) > 0.05 exactly when x is below it.
Chi2Crit == Frac(3841459, 1000000)

\* pval = 1 - stats.chi2.cdf(chi2, df=1), up to what the tab reads of it:
\* NaN for a NaN statistic, 1 at 0, else the side of 0.05 it falls on.
Chi2PValue(chi2) ==
  IF IsNaN(chi2) THEN "nan"
  ELSE IF chi2 = Zero THEN "1"
  ELSE IF FLt(chi2, Chi2Crit) THEN "(0.05,1)"
  ELSE "[0,0.05]"

\* pval > 0.05; false for NaN.
PGt05(p) == p \in {"1", "(0.05,1)"}

\* Lines 91-108: chi-square of the observed users against a 50/50 split.
\* The arrays are numpy's: a zero expected count divides without raising.
SrmCheck(users_a, users_b) ==
  LET total == users_a + users_b
      expected == FMul(Frac(1, 2), F(total))
      term(o) == NpDiv(FMul(FSub(F(o), expected), FSub(F(o), expected)), expected)
      chi2 == FAdd(term(users_a), term(users_b))
      pval == Chi2PValue(chi2)
  IN [exc |-> None,
      users_A |-> users_a,
      users_B |-> users_b,
      chi2 |-> chi2,
      p |-> pval,
      interpretation |-> IF PGt05(pval) THEN "No SRM (p > 0.05)"
                         ELSE "Potential SRM (p <= 0.05)"]

\* Lines 45-87: the table is read and shown with its cards and chart.
OverviewMetrics ==
  /\ tab = "overview"
  /\ tab' = "srm"
  /\ UNCHANGED <<vm, uo, uop, srm, sig, cis, cuped, bootVars>>

\* Lines 89-108.
OverviewSrm ==
  /\ tab = "srm"
  /\ srm' = SrmCheck(vm.A.users, vm.B.users)
  /\ tab' = "done"
  /\ UNCHANGED <<vm, uo, uop, sig, cis, cuped, bootVars>>

InitOverview ==
  /\ tab = "overview"
  /\ vm \in VmTables
  /\ uo = None /\ uop = None
  /\ srm = None /\ sig = None /\ cis = None /\ cuped = None
  /\ BootIdle

NextOverview == OverviewMetrics \/ OverviewSrm

SpecOverview == InitOverview /\ [][NextOverview]_vars

\* C7: when an expected count is zero (users_A + users_B = 0 under the 50/50
\* split) the check fails with InvalidAllocation and writes no verdict.
C7_InvalidAllocation ==
  (tab = "done" /\ vm.A.users + vm.B.users = 0)
    => (srm.exc = "InvalidAllocation" /\ srm.interpretation = None)

\* What the code does there instead (holds): it reports a potential SRM with
\* a NaN statistic.
SrmOnZeroUsers ==
  (tab = "done" /\ vm.A.users + vm.B.users = 0)
    => (srm.exc = None /\ IsNaN(srm.chi2) /\ srm.interpretation = "Potential SRM (p <= 0.05)")

\* Balanced non-empty arms give chi2 = 0, p = 1, no SRM (holds).
SrmBalanced ==
  (tab = "done" /\ vm.A.users = vm.B.users /\ vm.A.users > 0)
    => (srm.chi2 = Zero /\ srm.p = "1" /\ srm.interpretation = "No SRM (p > 0.05)")

(* --------------------------- significance tab -------------------------- *)
NotRun == [exc |-> "not run"]

\* Python's `/` on an int or float: a zero divisor raises ZeroDivisionError.
PyDivNeverRaises(d) == FALSE
PyDivRaises(d) == d = 0

\* np.sqrt: NaN (with a warning) for a negative or NaN argument.  The root
\* itself is kept as its radicand.
Sqrt(r) == IF IsNaN(r) \/ FLt(r, Zero) THEN NaN ELSE r

\* A statistic x / sqrt(rad): its sign and its square.
StatZero == [sgn |-> 0, sq |-> Zero]
DivBySqrt(x, rad) == [sgn |-> Sign(x.n), sq |-> NpDiv(FMul(x, x), rad)]

\* 2 * (1 - stats.norm.cdf(abs(z))): exactly 1 at z = 0, below 1 elsewhere.
NormPValue(z) ==
  IF IsNaN(z.sq) THEN "nan" ELSE IF z.sq = Zero THEN "1" ELSE "[0,1)"

\* 2 * (1 - stats.t.cdf(abs(t), df)): NaN unless df > 0.
StudentPValue(t, df) ==
  IF IsNaN(t.sq) \/ ~FGt(df, Zero) THEN "nan"
  ELSE IF t.sq = Zero THEN "1" ELSE "[0,1)"

\* Lines 128-147: the two-proportion z-test on Python ints and floats.
ProportionTest(a_n, b_n, a_x, b_x) ==
  IF PyDivRaises(a_n) \/ PyDivRaises(b_n) THEN [exc |-> "ZeroDivisionError"]
  ELSE
    LET p_a == NpDiv(F(a_x), F(a_n))
        p_b == NpDiv(F(b_x), F(b_n))
        se == Sqrt(FAdd(NpDiv(FMul(p_a, FSub(One, p_a)), F(a_n)),
                        NpDiv(FMul(p_b, FSub(One, p_b)), F(b_n))))
        z_conv == IF FGt(se, Zero) THEN DivBySqrt(FSub(p_b, p_a), se) ELSE StatZero
    IN [exc |-> None,
        A_rate |-> p_a,
        B_rate |-> p_b,
        B_minus_A |-> FSub(p_b, p_a),
        z |-> z_conv,
        p |-> NormPValue(z_conv)]

\* Lines 158-160 and 317-321: the Welch-Satterthwaite degrees of freedom.
\* a_n, b_n are Python ints and the variances Python floats, so the division
\* by n * n * (n - 1) raises when it is zero.
WelchDfRaises(a_n, b_n) ==
  PyDivRaises(a_n * a_n * (a_n - 1)) \/ PyDivRaises(b_n * b_n * (b_n - 1))

WelchDf(a_n, b_n, v_a, v_b) ==
  LET s2 == FAdd(NpDiv(v_a, F(a_n)), NpDiv(v_b, F(b_n)))
      num == FMul(s2, s2)
      den == FAdd(NpDiv(FMul(v_a, v_a), F(a_n * a_n * (a_n - 1))),
                  NpDiv(FMul(v_b, v_b), F(b_n * b_n * (b_n - 1))))
  IN IF FGt(den, Zero) THEN NpDiv(num, den) ELSE F(a_n + b_n - 2)

\* Lines 150-172: Welch's t-test from the summary statistics.
WelchTest(a_n, b_n, m_a, m_b, v_a, v_b) ==
  IF PyDivRaises(a_n) \/ PyDivRaises(b_n) \/ WelchDfRaises(a_n, b_n)
  THEN [exc |-> "ZeroDivisionError"]
  ELSE
    LET se_welch == Sqrt(FAdd(NpDiv(v_a, F(a_n)), NpDiv(v_b, F(b_n))))
        t_arpu == IF FGt(se_welch, Zero) THEN DivBySqrt(FSub(m_b, m_a), se_welch)
                  ELSE StatZero
        df == WelchDf(a_n, b_n, v_a, v_b)
    IN [exc |-> None,
        mean_A |-> m_a,
        mean_B |-> m_b,
        diff_B_minus_A |-> FSub(m_b, m_a),
        t |-> t_arpu,
        df |-> df,
        p |-> StudentPValue(t_arpu, df)]

\* Lines 121-147, 174-178: the conversion test is computed and written; an
\* exception ends the tab in its handler, which shows it.
SigProportion ==
  /\ tab = "significance"
  /\ LET r == ProportionTest(vm.A.users, vm.B.users, vm.A.converters, vm.B.converters)
     IN IF r.exc # None
        THEN /\ sig' = [sig EXCEPT !.error = r.exc]
             /\ tab' = "done"
        ELSE /\ sig' = [sig EXCEPT !.conversion = r]
             /\ tab' = "welch"
  /\ UNCHANGED <<vm, uo, uop, srm, cis, cuped, bootVars>>

\* Lines 149-178: the ARPU test, same try block.
SigWelch ==
  /\ tab = "welch"
  /\ LET r == WelchTest(vm.A.users, vm.B.users, F(vm.A.arpu), F(vm.B.arpu),
                        F(vm.A.arpu_var), F(vm.B.arpu_var))
     IN IF r.exc # None
        THEN sig' = [sig EXCEPT !.error = r.exc]
        ELSE sig' = [sig EXCEPT !.arpu = r]
  /\ tab' = "done"
  /\ UNCHANGED <<vm, uo, uop, srm, cis, cuped, bootVars>>

InitSignificance ==
  /\ tab = "significance"
  /\ vm \in VmTables
  /\ uo = None /\ uop = None
  /\ srm = None /\ cis = None /\ cuped = None
  /\ sig = [conversion |-> NotRun, arpu |-> NotRun, error |-> None]
  /\ BootIdle

NextSignificance == SigProportion \/ SigWelch

SpecSignificance == InitSignificance /\ [][NextSignificance]_vars

\* C2: whenever the Welch-Satterthwaite denominator is zero, in particular
\* whenever n_a = 1 or n_b = 1, the test takes the fallback and yields
\* df = n_a + n_b - 2 and a result.
C2_WelchFallback ==
  (/\ tab = "done"
   /\ vm.A.users > 0 /\ vm.B.users > 0
   /\ \/ vm.A.users = 1
      \/ vm.B.users = 1
      \/ (vm.A.arpu_var = 0 /\ vm.B.arpu_var = 0))
    => (sig.arpu.exc = None /\ sig.arpu.df = F(vm.A.users + vm.B.users - 2))

\* The part of C2 the code keeps (holds): with two or more users in each arm
\* and both variances zero the fallback df is used.
WelchFallbackOnZeroVariance ==
  (/\ tab = "done"
   /\ vm.A.users > 1 /\ vm.B.users > 1
   /\ vm.A.arpu_var = 0 /\ vm.B.arpu_var = 0)
    => (sig.arpu.exc = None /\ sig.arpu.df = F(vm.A.users + vm.B.users - 2))

\* What the code does with a single user in an arm (holds): it raises.
WelchRaisesOnSingleUser ==
  (/\ tab = "done"
   /\ vm.A.users > 0 /\ vm.B.users > 0
   /\ (vm.A.users = 1 \/ vm.B.users = 1))
    => (sig.arpu = NotRun /\ sig.error = "ZeroDivisionError")

\* C5: identical (n, mean, variance) in both arms, n > 0, variance >= 0: the
\* test completes with t = 0, effect = 0 and p = 1.
C5_IdenticalArms ==
  (/\ tab = "done"
   /\ vm.A.users > 0
   /\ vm.A.users = vm.B.users /\ vm.A.arpu = vm.B.arpu /\ vm.A.arpu_var = vm.B.arpu_var)
    => (/\ sig.arpu.exc = None
        /\ sig.arpu.t = StatZero
        /\ sig.arpu.diff_B_minus_A = Zero
        /\ sig.arpu.p = "1")

\* The part of C5 the code keeps (holds): the same with n >= 2.
IdenticalArmsTwoUsers ==
  (/\ tab = "done"
   /\ vm.A.users > 1
   /\ vm.A.users = vm.B.users /\ vm.A.arpu = vm.B.arpu /\ vm.A.arpu_var = vm.B.arpu_var)
    => (/\ sig.arpu.exc = None
        /\ sig.arpu.t = StatZero
        /\ sig.arpu.diff_B_minus_A = Zero
        /\ sig.arpu.p = "1")

\* C6: with n = 0 in either arm the two-proportion test fails (the division
\* x / n raises, the handler shows the exception) and writes no rate, z, p or
\* effect; with n > 0 in both arms it writes its result, and z = 0 when the
\* standard error is 0 (each rate 0 or 1).
C6_ProportionTest ==
  (tab \in {"welch", "done"}) =>
    /\ (vm.A.users = 0 \/ vm.B.users = 0)
         => (sig.conversion = NotRun /\ sig.error = "ZeroDivisionError")
    /\ (vm.A.users > 0 /\ vm.B.users > 0)
         => /\ sig.conversion.exc = None
            /\ sig.conversion.B_minus_A =
                 Frac(vm.B.converters * vm.A.users - vm.A.converters * vm.B.users,
                      vm.A.users * vm.B.users)
            /\ (/\ vm.A.converters \in {0, vm.A.users}
                /\ vm.B.converters \in {0, vm.B.users})
                 => (sig.conversion.z = StatZero /\ sig.conversion.p = "1")

C6_Witness ==
  /\ tab = "done"
  /\ vm.A.users = 0 /\ vm.B.users > 0
  /\ sig.conversion = NotRun
  /\ sig.error = "ZeroDivisionError"

(* ------------------------ confidence-interval tab ---------------------- *)
\* SQL NULL in a numeric column.
Null == -1

\* Series.fillna(0)
fillna(s) == [k \in 1..Len(s) |-> IF s[k] = Null THEN 0 ELSE s[k]]

\* One row of user_outcomes.
UoRows == [converted : {0, 1}, retained_d14 : {Null, 1}, items_in_window : {0, 3}]

\* The per-user table by variant, or the failure of its query.
UoTables == [exc : {None}, A : SeqsUpTo(UoRows, MaxArm), B : SeqsUpTo(UoRows, MaxArm)]
QueryFailed == [exc |-> "QueryError"]

\* The slider of line 198 (500..4000 in steps of 500), scaled down.
SliderB == 1..MaxSlider

Column(rows, col) == [k \in 1..Len(rows) |-> rows[k][col]]

\* The loop of lines 205-208 (217-220, 240-243) run to its end from
\* generator state s: the buffer of n differences.
RECURSIVE BootLoop(_, _, _, _)
BootLoop(a, b, n, s) ==
  IF n = 0 THEN <<>>
  ELSE LET ra == choice(a, s)
           rb == choice(b, ra.rng)
       IN <<FSub(NpMean(ToFloat(rb.vals)), NpMean(ToFloat(ra.vals)))>>
            \o BootLoop(a, b, n - 1, rb.rng)

\* The calls stepped one iteration at a time end with the buffer of the loop
\* run in one piece (holds under SpecBoot).
SteppedBufferIsLoop ==
  \A c \in Calls :
    Finished(c) => diffs[c] = BootLoop(a_vals, b_vals, args[c].B, default_rng(args[c].seed))

\* Lines 236-244.
bootstrap_samples_mean_diff(a, b, B, seed) == BootLoop(a, b, B, default_rng(seed))

\* Lines 201-210 and 213-222 (the same body), for B >= 1.
bootstrap_ci(a, b, B, seed) ==
  LET buf == BootLoop(a, b, B, default_rng(seed))
  IN [point |-> PointEstimate(buf, a, b),
      lo |-> Percentile(buf, 1, 40),
      hi |-> Percentile(buf, 39, 40)]

\* ax.hist(samples, bins=60): the bin range cannot be found when no sample
\* is finite, and numpy's histogram raises ValueError.
HistRaises(samples) == \A k \in 1..Len(samples) : ~IsFinite(samples[k])

\* Lines 299-324: the analytic intervals from variant_metrics.  The critical
\* values are kept by name: z(0.975), or t(0.975, df) by its df.
AnalyticCIs(t) ==
  LET a_n == t.A.users
      b_n == t.B.users
  IN IF PyDivRaises(a_n) \/ PyDivRaises(b_n) \/ WelchDfRaises(a_n, b_n)
     THEN [exc |-> "ZeroDivisionError"]
     ELSE
       LET p_a == NpDiv(F(t.A.converters), F(a_n))
           p_b == NpDiv(F(t.B.converters), F(b_n))
           se == Sqrt(FAdd(NpDiv(FMul(p_a, FSub(One, p_a)), F(a_n)),
                           NpDiv(FMul(p_b, FSub(One, p_b)), F(b_n))))
           v_a == F(t.A.arpu_var)
           v_b == F(t.B.arpu_var)
           se_ar == Sqrt(FAdd(NpDiv(v_a, F(a_n)), NpDiv(v_b, F(b_n))))
       IN [exc |-> None,
           kind |-> "analytic",
           conversion |-> [diff |-> FSub(p_b, p_a), se |-> se, crit |-> "z"],
           arpu |-> [diff |-> FSub(F(t.B.arpu), F(t.A.arpu)), se |-> se_ar,
                     crit |-> WelchDf(a_n, b_n, v_a, v_b)]]

\* Lines 190-198: the query; then the slider.
CisLoad ==
  /\ tab = "cis"
  /\ IF uo.exc # None
     THEN /\ cis' = [cis EXCEPT !.raised = uo.exc]
          /\ tab' = "except"
     ELSE /\ \E B \in SliderB : cis' = [cis EXCEPT !.B = B]
          /\ tab' = "bootstrap"
  /\ UNCHANGED <<vm, uo, uop, srm, sig, cuped, bootVars>>

\* Lines 225-234: the arrays of each arm and the three intervals.
CisBootstrap ==
  /\ tab = "bootstrap"
  /\ LET a_conv == fillna(Column(uo.A, "converted"))
         b_conv == fillna(Column(uo.B, "converted"))
         a_ret == fillna(Column(uo.A, "retained_d14"))
         b_ret == fillna(Column(uo.B, "retained_d14"))
         a_arpu == fillna(Column(uo.A, "items_in_window"))
         b_arpu == fillna(Column(uo.B, "items_in_window"))
     IN cis' = [cis EXCEPT
                  !.cr = bootstrap_ci(a_conv, b_conv, cis.B, SeedConversion),
                  !.ret = bootstrap_ci(a_ret, b_ret, cis.B, SeedRetention),
                  !.ar = bootstrap_ci(a_arpu, b_arpu, cis.B, SeedArpu)]
  /\ tab' = "histogram"
  /\ UNCHANGED <<vm, uo, uop, srm, sig, cuped, bootVars>>

\* Lines 236-262: the buffer that is drawn, with its mean and percentile
\* lines.
CisHistogram ==
  /\ tab = "histogram"
  /\ LET a_arpu == fillna(Column(uo.A, "items_in_window"))
         b_arpu == fillna(Column(uo.B, "items_in_window"))
         samples == bootstrap_samples_mean_diff(a_arpu, b_arpu, cis.B, SeedHistogram)
     IN IF HistRaises(samples)
        THEN /\ cis' = [cis EXCEPT !.raised = "ValueError"]
             /\ tab' = "except"
        ELSE /\ cis' = [cis EXCEPT !.hist =
                          [exc |-> None,
                           samples |-> samples,
                           mean |-> NpMean(samples),
                           lo |-> Percentile(samples, 1, 40),
                           hi |-> Percentile(samples, 39, 40)]]
             /\ tab' = "table"
  /\ UNCHANGED <<vm, uo, uop, srm, sig, cuped, bootVars>>

\* Lines 264-288: the table of the three bootstrap intervals.
CisTable ==
  /\ tab = "table"
  /\ cis' = [cis EXCEPT !.table =
               [exc |-> None, kind |-> "bootstrap",
                conversion |-> cis.cr, retention |-> cis.ret, arpu |-> cis.ar]]
  /\ tab' = "done"
  /\ UNCHANGED <<vm, uo, uop, srm, sig, cuped, bootVars>>

\* The tables the fallback's query may return.
FallbackTables ==
  {t \in VmTables : /\ t.A.converters = 0 /\ t.B.converters = t.B.users
                    /\ t.A.arpu = 0 /\ t.B.arpu = 1}

\* Lines 290-347: `except Exception:` binds nothing; the warning is shown
\* and the analytic intervals are computed from variant_metrics.  Only a
\* failure of that second computation is shown as an exception.
CisExcept ==
  /\ tab = "except"
  /\ \E t \in FallbackTables :
       /\ vm' = t
       /\ LET r == AnalyticCIs(t)
          IN IF r.exc # None
             THEN cis' = [cis EXCEPT !.warning = "Per-user table missing",
                                     !.error = r.exc]
             ELSE cis' = [cis EXCEPT !.warning = "Per-user table missing",
                                     !.table = r]
  /\ tab' = "done"
  /\ UNCHANGED <<uo, uop, srm, sig, cuped, bootVars>>

InitCis ==
  /\ tab = "cis"
  /\ uo \in UoTables \cup {QueryFailed}
  /\ vm = None /\ uop = None
  /\ srm = None /\ sig = None /\ cuped = None
  /\ cis = [B |-> 0, cr |-> NotRun, ret |-> NotRun, ar |-> NotRun, hist |-> NotRun,
            table |-> NotRun, raised |-> None, warning |-> None, error |-> None]
  /\ BootIdle

NextCis == CisLoad \/ CisBootstrap \/ CisHistogram \/ CisTable \/ CisExcept

SpecCis == InitCis /\ [][NextCis]_vars

\* C8: when a computation of the bootstrap section fails, the failure is
\* what the caller receives: it is shown, and no result of another
\* computation is put in its place.  (A failed query of the table is the
\* case the fallback is announced for, and is not counted here.)
C8_FailuresSurfaced ==
  (tab = "done" /\ cis.raised = "ValueError")
    => (cis.error = cis.raised /\ cis.table = NotRun)

\* What the code does instead (holds): every failure of the try body ends
\* under the "table missing" warning, never shown, with the analytic
\* intervals in place of the bootstrap ones unless those fail too.
FailuresReplaced ==
  (tab = "done" /\ cis.raised # None)
    => /\ cis.warning = "Per-user table missing"
       /\ cis.error # cis.raised
       /\ cis.table # NotRun => cis.table.kind = "analytic"

\* C10: the buffer drawn for ARPU is the buffer behind the ARPU row of the
\* table: its mean and its 2.5th and 97.5th percentiles are the reported
\* point estimate and interval.
C10_HistogramIsReportedBuffer ==
  (tab = "done" /\ cis.table # NotRun /\ cis.table.kind = "bootstrap")
    => /\ cis.hist.mean = cis.table.arpu.point
       /\ cis.hist.lo = cis.table.arpu.lo
       /\ cis.hist.hi = cis.table.arpu.hi

(* ------------------------------ CUPED tab ------------------------------ *)
RECURSIVE Pow2(_)
Pow2(k) == IF k = 0 THEN 1 ELSE 2 * Pow2(k - 1)

\* The float nearest to n/d > 0 with a significand of Prec bits, ties to the
\* even significand.
RECURSIVE RoundPos(_, _)
RoundPos(n, d) ==
  IF n < Pow2(Prec - 1) * d
  THEN LET r == RoundPos(2 * n, d) IN Frac(r.n, 2 * r.d)
  ELSE IF n >= Pow2(Prec) * d
  THEN LET r == RoundPos(n, 2 * d) IN Frac(2 * r.n, r.d)
  ELSE LET q == n \div d
           rem == n % d
       IN F(IF 2 * rem < d THEN q
            ELSE IF 2 * rem > d THEN q + 1
            ELSE IF q % 2 = 0 THEN q ELSE q + 1)

\* Rounding of an exact result to the float that is stored.
Round(x) ==
  IF x.d = 0 \/ x.n = 0 THEN x
  ELSE LET r == RoundPos(Abs(x.n), x.d) IN [n |-> Sign(x.n) * r.n, d |-> r.d]

RAdd(x, y) == Round(FAdd(x, y))
RSub(x, y) == Round(FSub(x, y))
RMul(x, y) == Round(FMul(x, y))
RDiv(x, y) == Round(NpDiv(x, y))

\* The sum of an array, added left to right, each partial sum rounded.
RECURSIVE RSum(_)
RSum(s) == IF s = <<>> THEN Zero ELSE RAdd(RSum(SubSeq(s, 1, Len(s) - 1)), s[Len(s)])

\* ndarray.mean()
RMean(s) == RDiv(RSum(s), F(Len(s)))

\* np.var(x, ddof=1): the mean, the squared deviations, their sum over n - 1.
NpVar(x) ==
  LET m == RMean(x)
      sq == [k \in 1..Len(x) |-> RMul(RSub(x[k], m), RSub(x[k], m))]
  IN RDiv(RSum(sq), F(Len(x) - 1))

\* np.cov(y, x, ddof=1)[0, 1]: both rows centred, their dot product times
\* 1 / fact, where fact = n - 1, or 0 when that is not positive.
NpCov(y, x) ==
  LET my == RMean(y)
      mx == RMean(x)
      prod == [k \in 1..Len(x) |-> RMul(RSub(y[k], my), RSub(x[k], mx))]
      fact == IF Len(x) - 1 > 0 THEN Len(x) - 1 ELSE 0
  IN RMul(RSum(prod), RDiv(One, F(fact)))

\* One row of user_outcomes_with_pre: variant, Y = items_in_window,
\* X = items_pre (NULL allowed).
UopRows == [variant : {"A", "B"}, Y : {0, 1, 3}, X : {Null, 6}]
UopTables == SeqsUpTo(UopRows, MaxUnits)

\* The rows of a variant, in order.
RECURSIVE OfVariant(_, _, _)
OfVariant(rows, vals, v) ==
  IF rows = <<>> THEN <<>>
  ELSE (IF rows[1].variant = v THEN <<vals[1]>> ELSE <<>>)
         \o OfVariant(Tail(rows), Tail(vals), v)

\* Lines 423-438: theta, the adjusted outcome and the per-arm samples handed
\* to the two t-tests.  (The scalars written from them, lines 431-433 and
\* 440-452, are not kept.)
Cuped(rows) ==
  LET X == ToFloat(fillna(Column(rows, "X")))
      Y == ToFloat(Column(rows, "Y"))
      varX == NpVar(X)
      covYX == NpCov(Y, X)
      theta == IF FGt(varX, Zero) THEN RDiv(covYX, varX) ELSE Zero
      mx == RMean(X)
      Y_cuped == [k \in 1..Len(rows) |-> RSub(Y[k], RMul(theta, RSub(X[k], mx)))]
  IN [X |-> X, Y |-> Y, varX |-> varX, theta |-> theta, Y_cuped |-> Y_cuped,
      a_raw |-> OfVariant(rows, Y, "A"),
      b_raw |-> OfVariant(rows, Y, "B"),
      a_adj |-> OfVariant(rows, Y_cuped, "A"),
      b_adj |-> OfVariant(rows, Y_cuped, "B")]

\* Lines 416-422: the query.
CupedLoad ==
  /\ tab = "cuped"
  /\ tab' = "adjust"
  /\ UNCHANGED <<vm, uo, uop, srm, sig, cis, cuped, bootVars>>

\* Lines 423-452.
CupedAdjust ==
  /\ tab = "adjust"
  /\ cuped' = Cuped(uop)
  /\ tab' = "done"
  /\ UNCHANGED <<vm, uo, uop, srm, sig, cis, bootVars>>

InitCuped ==
  /\ tab = "cuped"
  /\ uop \in UopTables
  /\ vm = None /\ uo = None
  /\ srm = None /\ sig = None /\ cis = None /\ cuped = None
  /\ BootIdle

NextCuped == CupedLoad \/ CupedAdjust

SpecCuped == InitCuped /\ [][NextCuped]_vars

ConstantX == \A j, k \in 1..Len(uop) : uop[j].X = uop[k].X

\* C4: when X has the same value for every unit (NULL for every unit
\* included) theta = 0, Y' = Y for every unit, and the adjusted per-arm
\* samples are the raw ones.
C4_CupedNoOp ==
  (tab = "done" /\ ConstantX)
    => /\ cuped.theta = Zero
       /\ cuped.Y_cuped = cuped.Y
       /\ cuped.a_adj = cuped.a_raw
       /\ cuped.b_adj = cuped.b_raw

\* The part of C4 the code keeps (holds): when the mean of the constant
\* covariate is computed without rounding error, as for an X that is NULL
\* (filled with 0) for every unit, the adjustment is a no-op.
CupedNoOpOnExactMean ==
  (tab = "done" /\ ConstantX /\ (uop # <<>> => RMean(cuped.X) = cuped.X[1]))
    => /\ cuped.theta = Zero
       /\ cuped.Y_cuped = cuped.Y
       /\ cuped.a_adj = cuped.a_raw
       /\ cuped.b_adj = cuped.b_raw

====
